---- MODULE Spec2Model ----
(***************************************************************************)
(* Model of ImportApp.py: the in-memory session store (STATE in the       *)
(* source, State here: STATE is a reserved word), the /upload, /chat,      *)
(* /preview and /download handlers, and the document helpers they call.    *)
(*                                                                         *)
(* Text is a sequence of one-character strings.  A document is the         *)
(* structure python-docx exposes: a sequence of body paragraphs and a      *)
(* sequence of tables; a table is a sequence of rows, a row a sequence of  *)
(* cells, a cell a sequence of paragraphs.  An optional value is <<>>      *)
(* (None) or <<x>>.  A dict is a sequence of [k, v] entries with distinct  *)
(* keys, in insertion order, as a Python dict keeps them.                  *)
(*                                                                         *)
(* A handler runs as one step, except under RaceSpec, where the server's   *)
(* threads run chat() for plain messages in two steps; handlers holds the  *)
(* locals of those threads.                                                *)
(***************************************************************************)
EXTENDS Integers, Sequences, FiniteSets, TLC

VARIABLES State, resp, handlers

vars == <<State, resp, handlers>>

(***************************************************************************)
(* Bounds of the model.                                                    *)
(***************************************************************************)
\* Size of the pool uuid4 draws session ids from.
MaxSessions == 2
\* Largest number of entries of a fill_all map.
MaxFill == 2
\* Largest number of body paragraphs of a scanned document.
MaxParas == 2

None == <<>>
Some(x) == <<x>>

NL == "\n"
Whitespace == {" ", NL}

(***************************************************************************)
(* str.strip(), str.lower(), str.endswith(), "\n\n".join, str.split("\n\n") *)
(***************************************************************************)
RECURSIVE LStrip(_)
LStrip(s) ==
    IF s = <<>> THEN s
    ELSE IF Head(s) \in Whitespace THEN LStrip(Tail(s)) ELSE s

RECURSIVE RStrip(_)
RStrip(s) ==
    IF s = <<>> THEN s
    ELSE IF s[Len(s)] \in Whitespace THEN RStrip(SubSeq(s, 1, Len(s) - 1)) ELSE s

Strip(s) == RStrip(LStrip(s))

LowerChar(c) ==
    CASE c = "D" -> "d"
      [] c = "O" -> "o"
      [] c = "C" -> "c"
      [] c = "X" -> "x"
      [] c = "A" -> "a"
      [] OTHER -> c

Lower(s) == [i \in 1..Len(s) |-> LowerChar(s[i])]

EndsWith(s, suffix) ==
    /\ Len(s) >= Len(suffix)
    /\ SubSeq(s, Len(s) - Len(suffix) + 1, Len(s)) = suffix

RECURSIVE JoinParas(_)
JoinParas(parts) ==
    IF parts = <<>> THEN <<>>
    ELSE IF Len(parts) = 1 THEN parts[1]
    ELSE parts[1] \o <<NL, NL>> \o JoinParas(Tail(parts))

\* text.split("\n\n"): separators are found left to right, without overlap.
RECURSIVE SplitFrom(_, _)
SplitFrom(s, acc) ==
    IF s = <<>> THEN <<acc>>
    ELSE IF Len(s) >= 2 /\ s[1] = NL /\ s[2] = NL
         THEN <<acc>> \o SplitFrom(SubSeq(s, 3, Len(s)), <<>>)
         ELSE SplitFrom(Tail(s), Append(acc, Head(s)))

SplitParas(s) == SplitFrom(s, <<>>)

(***************************************************************************)
(* Python dict: insertion-ordered entries.                                 *)
(***************************************************************************)
Keys(d) == {d[i].k : i \in 1..Len(d)}

KeyList(d) == [i \in 1..Len(d) |-> d[i].k]

HasKey(d, key) == key \in Keys(d)

Get(d, key) == d[CHOOSE i \in 1..Len(d) : d[i].k = key].v

\* d[key] = val: an existing key keeps its position.
DictSet(d, key, val) ==
    IF HasKey(d, key)
    THEN [i \in 1..Len(d) |-> IF d[i].k = key THEN [k |-> key, v |-> val] ELSE d[i]]
    ELSE Append(d, [k |-> key, v |-> val])

\* An update that replaces the dict by the other one.
DictUpdateReplaces(d, other) == other

RECURSIVE DictUpdate(_, _)
DictUpdate(d, other) ==
    IF other = <<>> THEN d
    ELSE DictUpdate(DictSet(d, other[1].k, other[1].v), Tail(other))

(***************************************************************************)
(* Documents.                                                              *)
(***************************************************************************)
Doc(paragraphs, tables) == [paragraphs |-> paragraphs, tables |-> tables]

RECURSIVE Flatten(_)
Flatten(seqs) ==
    IF seqs = <<>> THEN <<>> ELSE Head(seqs) \o Flatten(Tail(seqs))

\* The paragraphs of one table: rows, then cells, then the cell's paragraphs.
TableParagraphs(table) ==
    Flatten([r \in 1..Len(table) |-> Flatten(table[r])])

iter_all_paragraphs(document) ==
    document.paragraphs
        \o Flatten([t \in 1..Len(document.tables) |->
                        TableParagraphs(document.tables[t])])

(***************************************************************************)
(* PLACEHOLDER_PATTERN = \[([^\]]+)\] and finditer.                        *)
(***************************************************************************)
\* Index of the first "]" at or after position i, 0 if there is none.
RECURSIVE FirstClose(_, _)
FirstClose(text, i) ==
    IF i > Len(text) THEN 0
    ELSE IF text[i] = "]" THEN i
    ELSE FirstClose(text, i + 1)

\* End of the match that starts at i, 0 if no match starts there.
MatchEnd(text, i) ==
    IF text[i] # "[" THEN 0
    ELSE LET j == FirstClose(text, i + 1)
         IN IF j > i + 1 THEN j ELSE 0

\* The matches at or after position i, left to right, without overlap.
RECURSIVE FindIter(_, _)
FindIter(text, i) ==
    IF i > Len(text) THEN <<>>
    ELSE LET j == MatchEnd(text, i)
         IN IF j = 0 THEN FindIter(text, i + 1)
            ELSE <<[start |-> i, end |-> j]>> \o FindIter(text, j + 1)

\* match.group(1).strip()
GroupName(text, m) == Strip(SubSeq(text, m.start + 1, m.end - 1))

\* match.group(0)
GroupAll(text, m) == SubSeq(text, m.start, m.end)

\* The inner loop without the test on seen.
RECURSIVE CollectMatchesKeepsRepeats(_, _, _)
CollectMatchesKeepsRepeats(text, ms, placeholders) ==
    IF ms = <<>> THEN placeholders
    ELSE LET name == GroupName(text, Head(ms))
         IN CollectMatchesKeepsRepeats(text, Tail(ms),
                IF name # <<>>
                THEN Append(placeholders, name)
                ELSE placeholders)

\* The inner loop of collect_placeholders over one paragraph's matches.
RECURSIVE CollectMatches(_, _, _)
CollectMatches(text, ms, placeholders) ==
    IF ms = <<>> THEN placeholders
    ELSE LET name == GroupName(text, Head(ms))
             seen == {placeholders[i] : i \in 1..Len(placeholders)}
         IN CollectMatches(text, Tail(ms),
                IF name # <<>> /\ name \notin seen
                THEN Append(placeholders, name)
                ELSE placeholders)

RECURSIVE CollectParagraphs(_, _)
CollectParagraphs(paras, placeholders) ==
    IF paras = <<>> THEN placeholders
    ELSE CollectParagraphs(Tail(paras),
            CollectMatches(Head(paras), FindIter(Head(paras), 1), placeholders))

collect_placeholders(document) ==
    CollectParagraphs(iter_all_paragraphs(document), <<>>)

(***************************************************************************)
(* The AI edit adapter.                                                    *)
(***************************************************************************)
get_full_doc_text(document) ==
    JoinParas(SelectSeq(iter_all_paragraphs(document),
                        LAMBDA text : Strip(text) # <<>>))

\* service is None when generate_content raises, else the text it returns.
get_ai_edit(doc_text, service) ==
    IF service = None THEN doc_text ELSE Strip(service[1])

\* apply_ai_edits adding the paragraphs without clearing the tables.
apply_ai_editsKeepsTables(document, edited_text) ==
    LET kept == SelectSeq(SplitParas(edited_text), LAMBDA p : Strip(p) # <<>>)
    IN Doc([i \in 1..Len(kept) |-> Strip(kept[i])], document.tables)

apply_ai_edits(document, edited_text) ==
    LET kept == SelectSeq(SplitParas(edited_text), LAMBDA p : Strip(p) # <<>>)
    IN Doc([i \in 1..Len(kept) |-> Strip(kept[i])], <<>>)

(***************************************************************************)
(* Inputs: the uploads, payloads and service outcomes that are enumerated. *)
(***************************************************************************)
NameA == <<"A">>
NameB == <<"B">>
\* A name no sample document contains.
NameZ == <<"Z">>

ParaA == <<"[", "A", "]">>
ParaB == <<"[", "B", "]">>
ParaBoth == <<"[", "A", "]", " ", "[", " ", "A", "]", " ", "[", "B", "]">>
ParaPlain == <<"x", "<">>
ParaBlank == <<>>

DocPlain == Doc(<<ParaPlain>>, <<>>)
DocOne == Doc(<<ParaA>>, <<>>)
DocTwo == Doc(<<ParaBoth, ParaBlank>>, <<>>)
\* One body paragraph and a table of one row with two cells.
DocTable == Doc(<<ParaB>>, << << << <<ParaA>>, <<ParaBlank>> >> >> >>)

SampleDocs == {DocPlain, DocOne, DocTwo, DocTable}

\* File contents: no bytes, bytes python-docx cannot open, or a saved document.
EmptyBytes == [kind |-> "empty", doc |-> Doc(<<>>, <<>>)]
GarbageBytes == [kind |-> "garbage", doc |-> Doc(<<>>, <<>>)]
DocxBytes(document) == [kind |-> "docx", doc |-> document]

NameDocx == <<"A", ".", "D", "o", "c", "x">>
NameTxt == <<"a", ".", "t", "x", "t">>
FileNames == {<<>>, NameTxt, NameDocx}

\* request.files: no "file" field (None) or a file with a name and contents.
Uploads ==
    {None} \cup
    {Some([filename |-> f, contents |-> c]) :
        f \in FileNames,
        c \in {EmptyBytes, GarbageBytes} \cup {DocxBytes(d) : d \in SampleDocs}}

SessionIds == 1..MaxSessions
\* A request that carries no session id.
NoSessionId == 0

\* payload["message"]: absent, blank, or a value with surrounding blanks.
RawMessages == {None, Some(<<" ">>), Some(<<"v">>), Some(<<" ", "w">>)}

FillKeys == {NameA, NameB, NameZ}
FillValues == {<<"v">>}
FillEntries == [k : FillKeys, v : FillValues]

\* JSON objects of at most MaxFill entries, in every order of their keys.
FillMaps ==
    {e \in UNION {[1..n -> FillEntries] : n \in 0..MaxFill} :
        \A i, j \in 1..Len(e) : i # j => e[i].k # e[j].k}

\* The /chat payloads: every combination of message, start and edit_mode
\* without fill_all, with an empty fill_all and with one fill_all map, and
\* every fill_all map on its own.
ChatPayloads ==
    [message : RawMessages,
     fill_all : {None, Some(<<>>), Some(<<[k |-> NameB, v |-> <<"v">>]>>)},
     start : BOOLEAN, edit_mode : BOOLEAN]
    \cup
    [message : {None}, fill_all : {Some(d) : d \in FillMaps},
     start : {FALSE}, edit_mode : {FALSE}]

\* What generate_content returns; None when the call raises.
ServiceOutcomes ==
    {None, Some(<<" ", "[", "A", "]", NL, NL, NL, "x">>)}

(***************************************************************************)
(* The session store.                                                      *)
(***************************************************************************)
Put(store, id, session) ==
    [i \in DOMAIN store \cup {id} |-> IF i = id THEN session ELSE store[i]]

ErrorResponse(op, status, error) ==
    [op |-> op, status |-> status, error |-> error]

NoResponse == [op |-> "none", status |-> 0]

\* The threads app.run() serves two requests with at the same time.
Handlers == {"first", "second"}

\* A thread that has not taken a request: the locals of chat() are unset.
\* concurrent records that another thread was inside chat() for the same
\* session while this one was.
IdleHandler ==
    [pc |-> "idle", session_id |-> NoSessionId, message |-> <<>>,
     pending |-> None, concurrent |-> FALSE]

Init ==
    /\ State = <<>>
    /\ resp = NoResponse
    /\ handlers = [h \in Handlers |-> IdleHandler]

(***************************************************************************)
(* POST /upload                                                            *)
(***************************************************************************)
\* werkzeug's secure_filename on names of letters and dots.
RECURSIVE secure_filename(_)
secure_filename(name) ==
    IF name # <<>> /\ Head(name) = "." THEN secure_filename(Tail(name))
    ELSE IF name # <<>> /\ name[Len(name)] = "."
         THEN secure_filename(SubSeq(name, 1, Len(name) - 1))
         ELSE name

\* The new session of a successful upload.
NewSession(file) ==
    [doc_bytes |-> file.contents,
     filename |-> secure_filename(file.filename),
     placeholders |-> collect_placeholders(file.contents.doc),
     values |-> <<>>,
     pending |-> None]

\* UploadError as it would be without the check for an empty file.
UploadErrorSkipsEmptyCheck(upload) ==
    IF upload = None THEN Some("File is required.")
    ELSE IF upload[1].filename = <<>>
            \/ ~EndsWith(Lower(upload[1].filename), <<".", "d", "o", "c", "x">>)
         THEN Some("Only .docx files are supported.")
    ELSE IF upload[1].contents.kind = "garbage"
         THEN Some("Unable to process the .docx file.")
    ELSE None

\* The 400 response of an upload that is refused, None if it is accepted.
UploadError(upload) ==
    IF upload = None THEN Some("File is required.")
    ELSE IF upload[1].filename = <<>>
            \/ ~EndsWith(Lower(upload[1].filename), <<".", "d", "o", "c", "x">>)
         THEN Some("Only .docx files are supported.")
    ELSE IF upload[1].contents.kind = "empty"
         THEN Some("Uploaded file is empty.")
    ELSE IF upload[1].contents.kind # "docx"
         THEN Some("Unable to process the .docx file.")
    ELSE None

UploadRejected(upload) ==
    /\ UploadError(upload) # None
    /\ resp' = ErrorResponse("upload", 400, UploadError(upload)[1])
    /\ UNCHANGED State

\* uuid4 yields an id the store does not hold.
UploadAccepted(upload, session_id) ==
    /\ UploadError(upload) = None
    /\ session_id \notin DOMAIN State
    /\ State' = Put(State, session_id, NewSession(upload[1]))
    /\ resp' = [op |-> "upload", status |-> 200,
                session_id |-> session_id,
                placeholders |-> State'[session_id].placeholders,
                message |-> IF State'[session_id].placeholders # <<>>
                            THEN [text |-> "Detected placeholder(s).",
                                  count |-> Len(State'[session_id].placeholders)]
                            ELSE [text |-> "No placeholders detected.", count |-> 0]]

\* ids is the part of the pool uuid4 draws from.
Upload(uploads, ids) ==
    \E upload \in uploads :
        \/ UploadRejected(upload)
        \/ \E session_id \in ids : UploadAccepted(upload, session_id)

(***************************************************************************)
(* POST /chat                                                              *)
(***************************************************************************)
\* One entry of response_messages: the text's template and what fills it.
Message(text, name, message, count) ==
    [role |-> "assistant", text |-> text, name |-> name, message |-> message,
     count |-> count]

ChatResponse(messages, done, filled, pending) ==
    [op |-> "chat", status |-> 200, messages |-> messages, done |-> done,
     state |-> [filled |-> filled, pending |-> pending]]

\* [p for p in placeholders if p not in values]
Remaining(placeholders, values) ==
    SelectSeq(placeholders, LAMBDA p : ~HasKey(values, p))

\* The result of a branch: the session as the branch leaves it, and the response.
Outcome(session, response) == [session |-> session, response |-> response]

\* FillAllBranch as it would be if fill_all were filtered against the
\* placeholders before the merge.
FillAllBranchKnownOnly(session, fill_all) ==
    LET known == SelectSeq(fill_all, LAMBDA e : e.k \in {session.placeholders[i] :
                                                    i \in 1..Len(session.placeholders)})
        values == DictUpdate(session.values, known)
        filled_msg == Message("Filled placeholder(s) at once.", None, <<>>, Len(fill_all))
        left == Remaining(session.placeholders, values)
    IN IF left = <<>>
       THEN Outcome([session EXCEPT !.values = values],
                    ChatResponse(<<filled_msg,
                                   Message("All placeholders are now filled.", None, <<>>, 0)>>,
                                 TRUE, KeyList(values), None))
       ELSE Outcome([session EXCEPT !.values = values, !.pending = Some(left[1])],
                    ChatResponse(<<filled_msg,
                                   Message("Next, provide a value for",
                                           Some(left[1]), <<>>, 0)>>,
                                 FALSE, KeyList(values), Some(left[1])))

\* if fill_all: ...
FillAllBranch(session, fill_all) ==
    LET values == DictUpdate(session.values, fill_all)
        filled_msg == Message("Filled placeholder(s) at once.", None, <<>>, Len(fill_all))
        left == Remaining(session.placeholders, values)
    IN IF left = <<>>
       THEN Outcome([session EXCEPT !.values = values],
                    ChatResponse(<<filled_msg,
                                   Message("All placeholders are now filled.", None, <<>>, 0)>>,
                                 TRUE, KeyList(values), None))
       ELSE LET next_placeholder == left[1]
            IN Outcome([session EXCEPT !.values = values,
                                       !.pending = Some(next_placeholder)],
                       ChatResponse(<<filled_msg,
                                      Message("Next, provide a value for",
                                              Some(next_placeholder), <<>>, 0)>>,
                                    FALSE, KeyList(values), Some(next_placeholder)))

\* StartBranch as it would be if it asked for the last unfilled placeholder.
StartBranchLast(session) ==
    LET remaining == Remaining(session.placeholders, session.values)
    IN IF remaining = <<>>
       THEN Outcome(session,
                    ChatResponse(<<Message("No placeholders require input.", None, <<>>, 0)>>,
                                 TRUE, KeyList(session.values), None))
       ELSE LET next_placeholder == remaining[Len(remaining)]
            IN Outcome([session EXCEPT !.pending = Some(next_placeholder)],
                       ChatResponse(<<Message("What value should replace",
                                              Some(next_placeholder), <<>>, 0)>>,
                                    FALSE, KeyList(session.values),
                                    Some(next_placeholder)))

\* if start: ...
StartBranch(session) ==
    LET remaining == Remaining(session.placeholders, session.values)
    IN IF remaining = <<>>
       THEN Outcome(session,
                    ChatResponse(<<Message("No placeholders require input.", None, <<>>, 0)>>,
                                 TRUE, KeyList(session.values), None))
       ELSE LET next_placeholder == remaining[1]
            IN Outcome([session EXCEPT !.pending = Some(next_placeholder)],
                       ChatResponse(<<Message("What value should replace",
                                              Some(next_placeholder), <<>>, 0)>>,
                                    FALSE, KeyList(session.values),
                                    Some(next_placeholder)))

\* EditBranch as it would be if an edit dropped the outstanding question.
EditBranchResetsPending(session, message, service, raises) ==
    IF raises
    THEN Outcome([session EXCEPT !.pending = None],
                 ChatResponse(<<Message("Sorry, I couldn't apply that edit.", None, <<>>, 0)>>,
                              FALSE, KeyList(session.values), None))
    ELSE LET doc == session.doc_bytes.doc
             edited_doc == apply_ai_edits(doc, get_ai_edit(get_full_doc_text(doc), service))
         IN Outcome([session EXCEPT !.doc_bytes = DocxBytes(edited_doc),
                                    !.pending = None],
                    ChatResponse(<<Message("Applied AI edit:", None, message, 0)>>,
                                 FALSE, KeyList(session.values), None))

\* EditBranch as it would be if an edit scanned the new body for placeholders.
EditBranchRescans(session, message, service, raises) ==
    IF raises
    THEN Outcome(session,
                 ChatResponse(<<Message("Sorry, I couldn't apply that edit.", None, <<>>, 0)>>,
                              FALSE, KeyList(session.values), session.pending))
    ELSE LET doc == session.doc_bytes.doc
             edited_doc == apply_ai_edits(doc, get_ai_edit(get_full_doc_text(doc), service))
         IN Outcome([session EXCEPT !.doc_bytes = DocxBytes(edited_doc),
                                    !.placeholders = collect_placeholders(edited_doc)],
                    ChatResponse(<<Message("Applied AI edit:", None, message, 0)>>,
                                 FALSE, KeyList(session.values), session.pending))

\* if edit_mode and message: ...  raises is an exception inside the try block.
EditBranch(session, message, service, raises) ==
    IF raises
    THEN Outcome(session,
                 ChatResponse(<<Message("Sorry, I couldn't apply that edit.", None, <<>>, 0)>>,
                              FALSE, KeyList(session.values), session.pending))
    ELSE LET doc == session.doc_bytes.doc
             doc_text == get_full_doc_text(doc)
             edited_text == get_ai_edit(doc_text, service)
             edited_doc == apply_ai_edits(doc, edited_text)
         IN Outcome([session EXCEPT !.doc_bytes = DocxBytes(edited_doc)],
                    ChatResponse(<<Message("Applied AI edit:", None, message, 0)>>,
                                 FALSE, KeyList(session.values), session.pending))

\* AnswerBranch as it would be if it did not recompute the unfilled set.
AnswerBranchNoAdvance(session, message) ==
    LET pending == session.pending[1]
        values == DictSet(session.values, pending, message)
    IN Outcome([session EXCEPT !.values = values, !.pending = None],
               ChatResponse(<<Message("Recorded", Some(pending), message, 0)>>,
                            FALSE, KeyList(values), None))

\* AnswerBranch as it would be with key and value exchanged in the store.
AnswerBranchKeyedByMessage(session, message) ==
    LET pending == session.pending[1]
        values == DictSet(session.values, message, pending)
        recorded == Message("Recorded", Some(pending), message, 0)
        remaining == Remaining(session.placeholders, values)
    IN IF remaining # <<>>
       THEN Outcome([session EXCEPT !.values = values, !.pending = Some(remaining[1])],
                    ChatResponse(<<recorded,
                                   Message("Next, provide a value for",
                                           Some(remaining[1]), <<>>, 0)>>,
                                 FALSE, KeyList(values), Some(remaining[1])))
       ELSE Outcome([session EXCEPT !.values = values, !.pending = None],
                    ChatResponse(<<recorded,
                                   Message("All placeholders are now filled.", None, <<>>, 0)>>,
                                 TRUE, KeyList(values), None))

\* AnswerBranch as it would be if it left the stored pending alone.
AnswerBranchKeepsPending(session, message) ==
    LET pending == session.pending[1]
        values == DictSet(session.values, pending, message)
        remaining == Remaining(session.placeholders, values)
    IN Outcome([session EXCEPT !.values = values],
               ChatResponse(<<Message("Recorded", Some(pending), message, 0)>>,
                            remaining = <<>>, KeyList(values), session.pending))

\* if pending and message: ...
AnswerBranch(session, message) ==
    LET pending == session.pending[1]
        values == DictSet(session.values, pending, message)
        recorded == Message("Recorded", Some(pending), message, 0)
        remaining == Remaining(session.placeholders, values)
    IN IF remaining # <<>>
       THEN LET next_placeholder == remaining[1]
            IN Outcome([session EXCEPT !.values = values,
                                       !.pending = Some(next_placeholder)],
                       ChatResponse(<<recorded,
                                      Message("Next, provide a value for",
                                              Some(next_placeholder), <<>>, 0)>>,
                                    FALSE, KeyList(values), Some(next_placeholder)))
       ELSE Outcome([session EXCEPT !.values = values, !.pending = None],
                    ChatResponse(<<recorded,
                                   Message("All placeholders are now filled.", None, <<>>, 0)>>,
                                 TRUE, KeyList(values), None))

\* The fallthrough dropping the pending placeholder.
IdleBranchClearsPending(session) ==
    Outcome([session EXCEPT !.pending = None],
            ChatResponse(<<Message("Please provide input or check your session.",
                                   None, <<>>, 0)>>,
                         FALSE, KeyList(session.values), session.pending))

\* The fallthrough at the end of chat.
IdleBranch(session) ==
    Outcome(session,
            ChatResponse(<<Message("Please provide input or check your session.",
                                   None, <<>>, 0)>>,
                         FALSE, KeyList(session.values), session.pending))

\* chat() entering the edit branch on edit_mode alone.
chatEditWithoutMessage(session, raw_message, fill_all, start, edit_mode, service, raises) ==
    LET message == Strip(IF raw_message = None THEN <<>> ELSE raw_message[1])
    IN IF fill_all # None /\ fill_all[1] # <<>>
       THEN FillAllBranch(session, fill_all[1])
       ELSE IF start THEN StartBranch(session)
       ELSE IF edit_mode
            THEN EditBranch(session, message, service, raises)
       ELSE IF session.pending # None /\ message # <<>>
            THEN AnswerBranch(session, message)
       ELSE IdleBranch(session)

\* chat() on a session the store holds.
chat(session, raw_message, fill_all, start, edit_mode, service, raises) ==
    LET message == Strip(IF raw_message = None THEN <<>> ELSE raw_message[1])
    IN IF fill_all # None /\ fill_all[1] # <<>>
       THEN FillAllBranch(session, fill_all[1])
       ELSE IF start THEN StartBranch(session)
       ELSE IF edit_mode /\ message # <<>>
            THEN EditBranch(session, message, service, raises)
       ELSE IF session.pending # None /\ message # <<>>
            THEN AnswerBranch(session, message)
       ELSE IdleBranch(session)

\* The lookup answering "not found" instead of "bad request".
ChatInvalidSessionNotFound(session_id) ==
    /\ session_id = NoSessionId \/ session_id \notin DOMAIN State
    /\ resp' = ErrorResponse("chat", 404, "Invalid session.")
    /\ UNCHANGED State

ChatInvalidSession(session_id) ==
    /\ session_id = NoSessionId \/ session_id \notin DOMAIN State
    /\ resp' = ErrorResponse("chat", 400, "Invalid session.")
    /\ UNCHANGED State

ChatRequest(session_id, raw_message, fill_all, start, edit_mode, service, raises) ==
    /\ session_id # NoSessionId
    /\ session_id \in DOMAIN State
    /\ LET out == chat(State[session_id], raw_message, fill_all, start, edit_mode,
                       service, raises)
       IN /\ State' = [State EXCEPT ![session_id] = out.session]
          /\ resp' = out.response

\* The payloads on which chat() reaches the try block of the edit branch.
ReachesEdit(payload) ==
    /\ payload.fill_all = None \/ payload.fill_all = Some(<<>>)
    /\ ~payload.start
    /\ payload.edit_mode
    /\ payload.message # None /\ Strip(payload.message[1]) # <<>>

ChatWith(payloads, services) ==
    \E session_id \in SessionIds \cup {NoSessionId} :
        \/ ChatInvalidSession(session_id)
        \/ \E payload \in payloads, service \in services, raises \in BOOLEAN :
            \* the service and the try block play no part outside the edit branch
            /\ ReachesEdit(payload) \/ (service = None /\ ~raises)
            /\ ChatRequest(session_id, payload.message, payload.fill_all,
                           payload.start, payload.edit_mode, service, raises)

Chat(payloads) == ChatWith(payloads, ServiceOutcomes)

(***************************************************************************)
(* POST /chat on the server's threads.  A thread may be suspended between  *)
(* any two bytecodes; the model suspends it once, after the locals are     *)
(* read (line 466) and before the branches run.                            *)
(***************************************************************************)
\* Lines 452-466 for a plain message: the thread reads state["pending"] into
\* its local; values stays a reference to the session's dict.
ChatRead(h, session_id, raw_message) ==
    /\ handlers[h].pc = "idle"
    /\ session_id # NoSessionId
    /\ session_id \in DOMAIN State
    /\ LET others == {o \in Handlers \ {h} :
                        /\ handlers[o].pc = "read"
                        /\ handlers[o].session_id = session_id}
       IN handlers' =
            [o \in Handlers |->
                IF o = h
                THEN [pc |-> "read", session_id |-> session_id,
                      message |-> Strip(raw_message),
                      pending |-> State[session_id].pending,
                      concurrent |-> others # {}]
                ELSE IF o \in others
                     THEN [handlers[o] EXCEPT !.concurrent = TRUE]
                     ELSE handlers[o]]
    /\ UNCHANGED <<State, resp>>

\* Lines 551-596 for a plain message: the test and the key are the local
\* pending, the dict written and scanned is the session's.
ChatWrite(h) ==
    /\ handlers[h].pc = "read"
    /\ LET local == handlers[h]
           session == State[local.session_id]
           out == IF local.pending # None /\ local.message # <<>>
                  THEN AnswerBranch([session EXCEPT !.pending = local.pending],
                                    local.message)
                  ELSE IdleBranch(session)
       IN /\ State' = [State EXCEPT ![local.session_id] = out.session]
          /\ resp' = out.response
    /\ handlers' = [handlers EXCEPT ![h].pc = "done"]

(***************************************************************************)
(* GET /preview                                                            *)
(***************************************************************************)
\* html.escape of one character.
EscapeChar(c) ==
    CASE c = "&" -> "&amp;"
      [] c = "<" -> "&lt;"
      [] c = ">" -> "&gt;"
      [] c = "\"" -> "&quot;"
      [] c = "'" -> "&#x27;"
      [] OTHER -> c

\* html.escape: HTML is a sequence of pieces, a piece being a character of
\* text, an entity or a tag.
Escape(text) == [i \in 1..Len(text) |-> EscapeChar(text[i])]

SpanOpen == "<span style=\"color: red;\">"
SpanClose == "</span>"

\* The lambda handed to PLACEHOLDER_PATTERN.sub in document_to_html.
HighlightMatch(text, m, values) ==
    IF ~HasKey(values, GroupName(text, m))
    THEN <<SpanOpen>> \o Escape(GroupAll(text, m)) \o <<SpanClose>>
    ELSE Escape(Get(values, GroupName(text, m)))

\* PLACEHOLDER_PATTERN.sub(lambda, text) from position i: text outside the
\* matches is copied as it is.
RECURSIVE HighlightFrom(_, _, _)
HighlightFrom(text, i, values) ==
    IF i > Len(text) THEN <<>>
    ELSE LET j == MatchEnd(text, i)
         IN IF j = 0 THEN <<text[i]>> \o HighlightFrom(text, i + 1, values)
            ELSE HighlightMatch(text, [start |-> i, end |-> j], values)
                    \o HighlightFrom(text, j + 1, values)

\* The content of one paragraph: "if values:" is false for an empty dict.
RenderText(text, values) ==
    IF values # <<>> THEN HighlightFrom(text, 1, values) ELSE Escape(text)

RenderBody(paragraphs, values) ==
    LET shown == SelectSeq([i \in 1..Len(paragraphs) |-> RenderText(paragraphs[i], values)],
                           LAMBDA content : Strip(content) # <<>>)
    IN Flatten([i \in 1..Len(shown) |-> <<"<p>">> \o shown[i] \o <<"</p>">>])

\* '<br/>'.join(cell_content)
RECURSIVE JoinBr(_)
JoinBr(parts) ==
    IF parts = <<>> THEN <<>>
    ELSE IF Len(parts) = 1 THEN parts[1]
    ELSE parts[1] \o <<"<br/>">> \o JoinBr(Tail(parts))

RenderCell(cell, values) ==
    LET cell_content == SelectSeq([i \in 1..Len(cell) |-> RenderText(cell[i], values)],
                                  LAMBDA text : Strip(text) # <<>>)
    IN <<"<td>">> \o JoinBr(cell_content) \o <<"</td>">>

RenderRow(row, values) ==
    <<"<tr>">> \o Flatten([c \in 1..Len(row) |-> RenderCell(row[c], values)])
        \o <<"</tr>">>

RenderTable(table, values) ==
    <<"<table class=\"doc-table\">">>
        \o Flatten([r \in 1..Len(table) |-> RenderRow(table[r], values)])
        \o <<"</table>">>

document_to_html(document, values) ==
    LET parts == RenderBody(document.paragraphs, values)
                    \o Flatten([t \in 1..Len(document.tables) |->
                                    RenderTable(document.tables[t], values)])
    IN IF parts # <<>> THEN parts ELSE <<"<p><em>Document is empty.</em></p>">>

PreviewInvalidSession(session_id) ==
    /\ session_id = NoSessionId \/ session_id \notin DOMAIN State
    /\ resp' = ErrorResponse("preview", 400, "Invalid session.")
    /\ UNCHANGED State

\* A preview that resets the conversation of the session it renders.
PreviewRequestResets(session_id) ==
    /\ session_id # NoSessionId
    /\ session_id \in DOMAIN State
    /\ resp' = [op |-> "preview", status |-> 200,
                html |-> document_to_html(State[session_id].doc_bytes.doc,
                                          State[session_id].values)]
    /\ State' = [State EXCEPT ![session_id].pending = None]

\* No fault of python-docx is modelled, so the 500 answer is never given.
PreviewRequest(session_id) ==
    /\ session_id # NoSessionId
    /\ session_id \in DOMAIN State
    /\ resp' = [op |-> "preview", status |-> 200,
                html |-> document_to_html(State[session_id].doc_bytes.doc,
                                          State[session_id].values)]
    /\ UNCHANGED State

Preview ==
    \E session_id \in SessionIds \cup {NoSessionId} :
        \/ PreviewInvalidSession(session_id)
        \/ PreviewRequest(session_id)

(***************************************************************************)
(* GET /download                                                           *)
(***************************************************************************)
\* substitute(match) looking the name up as it is written, untrimmed.
SubstituteMatchUntrimmed(text, m, values) ==
    LET key == SubSeq(text, m.start + 1, m.end - 1)
    IN IF HasKey(values, key) THEN Get(values, key) ELSE GroupAll(text, m)

\* substitute(match) in apply_values
SubstituteMatch(text, m, values) ==
    IF HasKey(values, GroupName(text, m))
    THEN Get(values, GroupName(text, m))
    ELSE GroupAll(text, m)

\* PLACEHOLDER_PATTERN.sub(substitute, original) from position i
RECURSIVE SubstituteFrom(_, _, _)
SubstituteFrom(text, i, values) ==
    IF i > Len(text) THEN <<>>
    ELSE LET j == MatchEnd(text, i)
         IN IF j = 0 THEN <<text[i]>> \o SubstituteFrom(text, i + 1, values)
            ELSE SubstituteMatch(text, [start |-> i, end |-> j], values)
                    \o SubstituteFrom(text, j + 1, values)

\* The paragraph's text after the loop body of apply_values.
ApplyToParagraph(original, values) ==
    LET updated == SubstituteFrom(original, 1, values)
    IN IF updated # original THEN updated ELSE original

apply_values(document, values) ==
    Doc([i \in 1..Len(document.paragraphs) |->
            ApplyToParagraph(document.paragraphs[i], values)],
        [t \in 1..Len(document.tables) |->
            [r \in 1..Len(document.tables[t]) |->
                [c \in 1..Len(document.tables[t][r]) |->
                    [i \in 1..Len(document.tables[t][r][c]) |->
                        ApplyToParagraph(document.tables[t][r][c][i], values)]]]])

\* Index of the last "." of name, 0 if there is none.
RECURSIVE LastDot(_, _)
LastDot(name, i) ==
    IF i = 0 THEN 0 ELSE IF name[i] = "." THEN i ELSE LastDot(name, i - 1)

\* original_name.rsplit(".", 1)[0] + "_completed.docx"
DownloadName(original_name) ==
    LET dot == LastDot(original_name, Len(original_name))
        base == IF dot = 0 THEN original_name ELSE SubSeq(original_name, 1, dot - 1)
    IN base \o <<"_completed.docx">>

DownloadInvalidSession(session_id) ==
    /\ session_id = NoSessionId \/ session_id \notin DOMAIN State
    /\ resp' = ErrorResponse("download", 400, "Bad Request")
    /\ UNCHANGED State

\* A download that stores the substituted document it returns.
DownloadRequestSaves(session_id) ==
    /\ session_id # NoSessionId
    /\ session_id \in DOMAIN State
    /\ LET file == DocxBytes(apply_values(State[session_id].doc_bytes.doc,
                                          State[session_id].values))
       IN /\ resp' = [op |-> "download", status |-> 200, file |-> file,
                      download_name |-> DownloadName(State[session_id].filename)]
          /\ State' = [State EXCEPT ![session_id].doc_bytes = file]

\* No fault of python-docx is modelled, so abort(500) is never taken.
DownloadRequest(session_id) ==
    /\ session_id # NoSessionId
    /\ session_id \in DOMAIN State
    /\ resp' = [op |-> "download", status |-> 200,
                file |-> DocxBytes(apply_values(State[session_id].doc_bytes.doc,
                                                State[session_id].values)),
                download_name |-> DownloadName(State[session_id].filename)]
    /\ UNCHANGED State

Download ==
    \E session_id \in SessionIds \cup {NoSessionId} :
        \/ DownloadInvalidSession(session_id)
        \/ DownloadRequest(session_id)

(***************************************************************************)
(* Specifications.                                                         *)
(***************************************************************************)
\* One session, under the first id of the pool, through every request.  A
\* handler reads and writes only the session its request names, so one
\* session's states are those it has in any store; StoreSpec runs several
\* sessions side by side.
FirstId == {CHOOSE id \in SessionIds : \A other \in SessionIds : id <= other}

Next ==
    /\ \/ Upload(Uploads, FirstId)
       \/ Chat(ChatPayloads)
       \/ Preview
       \/ Download
    /\ UNCHANGED handlers

Spec == Init /\ [][Next]_vars

\* The same without fill_all: the guided chat of start, answers, edits and
\* requests that fall through.
GuidedPayloads == {p \in ChatPayloads : p.fill_all \in {None, Some(<<>>)}}

GuidedNext ==
    /\ \/ Upload(Uploads, FirstId)
       \/ Chat(GuidedPayloads)
       \/ Preview
       \/ Download
    /\ UNCHANGED handlers

GuidedSpec == Init /\ [][GuidedNext]_vars

\* An upload followed by start requests and plain messages only.
RunPayloads ==
    {p \in ChatPayloads :
        /\ p.fill_all = None
        /\ ~p.edit_mode
        /\ \/ p.start /\ p.message = None
           \/ ~p.start /\ p.message # None /\ Strip(p.message[1]) # <<>>}

RunNext ==
    /\ \/ Upload(Uploads, FirstId)
       \/ Chat(RunPayloads)
    /\ UNCHANGED handlers

RunSpec == Init /\ [][RunNext]_vars

\* As many sessions as the pool has ids, side by side, on one document and few payloads.
StoreUploads ==
    {None,
     Some([filename |-> <<>>, contents |-> DocxBytes(DocOne)]),
     Some([filename |-> NameTxt, contents |-> DocxBytes(DocOne)]),
     Some([filename |-> NameDocx, contents |-> EmptyBytes]),
     Some([filename |-> NameDocx, contents |-> GarbageBytes]),
     Some([filename |-> NameDocx, contents |-> DocxBytes(DocOne)])}

StorePayloads ==
    {p \in ChatPayloads :
        /\ p.message \in {None, Some(<<"v">>)}
        /\ p.fill_all \in {None, Some(<<[k |-> NameA, v |-> <<"v">>]>>)}
        /\ ~(p.start /\ p.edit_mode)}

StoreNext ==
    /\ \/ Upload(StoreUploads, SessionIds)
       \/ Chat(StorePayloads)
       \/ Preview
       \/ Download
    /\ UNCHANGED handlers

StoreSpec == Init /\ [][StoreNext]_vars

\* An upload, start requests handled in one step, and two plain messages
\* handled by the two threads.
RaceMessages == {<<"v">>, <<" ", "w">>}

StartPayloads == {p \in RunPayloads : p.start}

RaceNext ==
    \/ Upload(Uploads, FirstId) /\ UNCHANGED handlers
    \/ Chat(StartPayloads) /\ UNCHANGED handlers
    \/ \E h \in Handlers, session_id \in SessionIds, raw_message \in RaceMessages :
            ChatRead(h, session_id, raw_message)
    \/ \E h \in Handlers : ChatWrite(h)

RaceSpec == Init /\ [][RaceNext]_vars

EditPayloads == {p \in ChatPayloads : ReachesEdit(p)}

\* Uploads and edit requests, with more texts from the service: one with a
\* segment of a single space, one of a separator alone, and the empty text.
EditServiceOutcomes ==
    ServiceOutcomes
        \cup {Some(<<"x", NL, NL, " ", NL, NL, "[", "B", "]">>),
              Some(<<NL, NL>>),
              Some(<<>>)}

EditNext ==
    /\ \/ Upload(Uploads, FirstId)
       \/ ChatWith(EditPayloads, EditServiceOutcomes)
    /\ UNCHANGED handlers

EditSpec == Init /\ [][EditNext]_vars

\* Uploads of the documents built from a few paragraph texts: up to MaxParas
\* body paragraphs and at most one table, of one row with two cells.
ScanA == <<"[", "A", "]">>
ScanBA == <<"[", "B", "]", "[", " ", "]", "[", " ", "A", "]">>
ScanNested == <<"x", "[", "[", "A", "]">>

ScanTexts == {ScanA, ScanBA, ScanNested}

ScanBodies == UNION {[1..n -> ScanTexts] : n \in 0..MaxParas}

ScanTables ==
    {<<>>} \cup {<< << << <<left>>, <<right>> >> >> >> : left, right \in ScanTexts}

ScanDocs == {Doc(body, tables) : body \in ScanBodies, tables \in ScanTables}

ScanUploads ==
    {None, Some([filename |-> NameTxt, contents |-> DocxBytes(DocOne)])}
        \cup {Some([filename |-> NameDocx, contents |-> DocxBytes(document)]) :
                    document \in ScanDocs}

ScanNext == Upload(ScanUploads, FirstId) /\ UNCHANGED handlers

ScanSpec == Init /\ [][ScanNext]_vars

(***************************************************************************)
(* Reading a response.                                                     *)
(***************************************************************************)
ChatOk(r) == r.op = "chat" /\ r.status = 200

\* The branch of chat() a response comes from, told by its first message.
ResponseKind(r) ==
    LET text == r.messages[1].text
    IN CASE text = "Filled placeholder(s) at once." -> "fill_all"
         [] text \in {"What value should replace", "No placeholders require input."}
                -> "start"
         [] text \in {"Applied AI edit:", "Sorry, I couldn't apply that edit."}
                -> "edit"
         [] text = "Recorded" -> "answer"
         [] OTHER -> "idle"

ToSet(seq) == {seq[i] : i \in 1..Len(seq)}

\* The payloads that take the fill_all branch, and the plain messages.
FillAllPayloads == {p \in ChatPayloads : p.fill_all # None /\ p.fill_all # Some(<<>>)}

\* This step handles payload p for session s, with no part for the service.
ChatStep(s, p) ==
    ChatRequest(s, p.message, p.fill_all, p.start, p.edit_mode, None, FALSE)

(***************************************************************************)
(* C1..C10                                                                 *)
(***************************************************************************)

\* C1: in every reachable state, the stored pending of every session is
\* unset or names a placeholder of the session that is not a key of values.
C1_PendingIsUnfilledPlaceholder ==
    \A s \in DOMAIN State :
        \/ State[s].pending = None
        \/ /\ State[s].pending[1] \in ToSet(State[s].placeholders)
           /\ ~HasKey(State[s].values, State[s].pending[1])

\* The state part of C2.
C2_RunInvariant ==
    \A s \in DOMAIN State :
        LET ph == State[s].placeholders
            k == Len(State[s].values)
        IN /\ k <= Len(ph)
           /\ KeyList(State[s].values) = SubSeq(ph, 1, k)
           /\ ChatOk(resp) /\ ResponseKind(resp) \in {"start", "answer"} =>
                /\ resp.done <=> k = Len(ph)
                /\ resp.done => ToSet(resp.state.filled) = ToSet(ph)

\* The step C2 is about.
C2_AnswerStep ==
    ChatOk(resp') /\ ResponseKind(resp') = "answer" =>
    \A s \in DOMAIN State : \A p \in RunPayloads :
        (/\ ~p.start /\ State[s].pending # None
         /\ ChatStep(s, p)) =>
            LET k == Len(State[s].values)
            IN /\ k < Len(State[s].placeholders)
               /\ State'[s].values =
                    Append(State[s].values,
                           [k |-> State[s].placeholders[k + 1],
                            v |-> Strip(p.message[1])])

\* C2: after an upload, start requests and plain non-empty messages fill the
\* placeholders in discovery order: the keys of values are always the first k
\* placeholders in order, a start or answer response has done = TRUE exactly
\* when k is the number of placeholders, a done response reports the
\* placeholders as filled, and each answer given while a placeholder is
\* pending appends its trimmed message under placeholder k + 1.
C2_StartThenAnswersFillInOrder == [](C2_RunInvariant) /\ [][C2_AnswerStep]_vars

\* C2 witness: the second of two answers has completed a two-placeholder session.
C2_Witness ==
    \E s \in DOMAIN State :
        /\ Len(State[s].placeholders) = 2
        /\ Len(State[s].values) = 2
        /\ ChatOk(resp) /\ ResponseKind(resp) = "answer" /\ resp.done

\* C3: after a start, answer or fill-all response, if a placeholder is left
\* without a value the stored and the reported pending are the first such
\* placeholder in discovery order; if none is left the response has
\* done = TRUE and reports no pending.
C3_PendingIsFirstUnfilled ==
    \A s \in DOMAIN State :
        ChatOk(resp) /\ ResponseKind(resp) \in {"start", "answer", "fill_all"} =>
            LET left == Remaining(State[s].placeholders, State[s].values)
            IN IF left # <<>>
               THEN /\ State[s].pending = Some(left[1])
                    /\ resp.state.pending = Some(left[1])
                    /\ ~resp.done
               ELSE /\ resp.done
                    /\ resp.state.pending = None

\* C3 witness: a transition has skipped over a filled placeholder to ask for
\* the second one.
C3_Witness ==
    \E s \in DOMAIN State :
        /\ ChatOk(resp) /\ ResponseKind(resp) \in {"start", "answer", "fill_all"}
        /\ Len(State[s].placeholders) = 2
        /\ State[s].pending = Some(State[s].placeholders[2])
        /\ HasKey(State[s].values, State[s].placeholders[1])

\* C4: every chat response other than an edit response has done = TRUE
\* exactly when the keys of values cover the placeholders.
C4_DoneIffCovered ==
    \A s \in DOMAIN State :
        ChatOk(resp) /\ ResponseKind(resp) # "edit" =>
            (resp.done <=> Remaining(State[s].placeholders, State[s].values) = <<>>)

\* The step C5 is about.
C5_FillAllStep ==
    ChatOk(resp') /\ ResponseKind(resp') = "fill_all" =>
    \A s \in DOMAIN State : \A p \in FillAllPayloads :
        (/\ resp'.messages[1].count = Len(p.fill_all[1])
         /\ ToSet(Remaining(State[s].placeholders, State[s].values))
                \subseteq Keys(p.fill_all[1])
         /\ ChatStep(s, p)) =>
            /\ resp'.done
            /\ Keys(p.fill_all[1]) \subseteq Keys(State'[s].values)
            /\ State'[s].placeholders = State[s].placeholders
            /\ \/ State'[s].pending = None
               \/ State'[s].pending[1] \in ToSet(State[s].placeholders)

\* C5: a fill-all whose map covers every unfilled placeholder, with or
\* without names that are no placeholders, answers done = TRUE, keeps every
\* name of the map as a key of values, leaves placeholders as they were and
\* leaves the stored pending unset or naming a placeholder.
C5_FillAllSupersetCompletes == [][C5_FillAllStep]_vars

\* C5 witness: a fill-all has completed a session and left an unknown name
\* among the keys of values.
C5_Witness ==
    \E s \in DOMAIN State :
        /\ ChatOk(resp) /\ ResponseKind(resp) = "fill_all" /\ resp.done
        /\ State[s].placeholders # <<>>
        /\ NameZ \in Keys(State[s].values)

\* The step C6 is about.
C6_EditStep ==
    ChatOk(resp') /\ ResponseKind(resp') = "edit" =>
    \A s \in DOMAIN State : \A p \in EditPayloads :
        \A service \in ServiceOutcomes, raises \in BOOLEAN :
            ChatRequest(s, p.message, p.fill_all, p.start, p.edit_mode,
                        service, raises) =>
                /\ State'[s].placeholders = State[s].placeholders
                /\ State'[s].values = State[s].values
                /\ State'[s].pending = State[s].pending
                /\ ~resp'.done

\* C6: an edit request leaves placeholders, values and pending of its
\* session as they were, whatever the service and the try block do, and its
\* response has done = FALSE.
C6_EditLeavesChatState == [][C6_EditStep]_vars

\* C6 witness: an edit has answered on a session whose placeholders all
\* have values.
C6_Witness ==
    \E s \in DOMAIN State :
        /\ ChatOk(resp) /\ ResponseKind(resp) = "edit"
        /\ State[s].placeholders # <<>>
        /\ Remaining(State[s].placeholders, State[s].values) = <<>>
        /\ ~resp.done

\* The step C7 is about.
C7_FailedEditStep ==
    ChatOk(resp') /\ ResponseKind(resp') = "edit" =>
    \A s \in DOMAIN State : \A p \in EditPayloads :
        ChatRequest(s, p.message, p.fill_all, p.start, p.edit_mode, None, FALSE) =>
            /\ State'[s].doc_bytes = State[s].doc_bytes
            /\ ~resp'.done

\* C7: when the service fails during an edit, the stored document is after
\* the request what it was before, and the response has done = FALSE.
C7_FailedEditKeepsDocument == [][C7_FailedEditStep]_vars

\* The step C8 is about.
C8_PlaceholdersStep ==
    \A s \in DOMAIN State :
        /\ s \in DOMAIN State'
        /\ State'[s].placeholders = State[s].placeholders

\* C8: no request changes the placeholders of a session the store holds.
C8_PlaceholdersFixedAtUpload == [][C8_PlaceholdersStep]_vars

\* C8 witness: an edit has replaced the body, and a scan of the stored
\* document would no longer give the session's placeholders.
C8_Witness ==
    \E s \in DOMAIN State :
        /\ State[s].placeholders # <<>>
        /\ collect_placeholders(State[s].doc_bytes.doc) # State[s].placeholders

\* C9: without fill-all requests, the keys of values are placeholders.
C9_GuidedKeysArePlaceholders ==
    \A s \in DOMAIN State :
        Keys(State[s].values) \subseteq ToSet(State[s].placeholders)

\* C9 witness: an answer has been recorded and an edit has been applied.
C9_Witness ==
    \E s \in DOMAIN State :
        /\ State[s].values # <<>>
        /\ ChatOk(resp) /\ ResponseKind(resp) = "edit"

\* The uploads C10 says are refused.
C10_BadUpload(upload) ==
    \/ upload = None
    \/ ~EndsWith(Lower(upload[1].filename), <<".", "d", "o", "c", "x">>)
    \/ upload[1].contents.kind = "empty"

\* The step C10 is about.
C10_UploadStep ==
    /\ \A upload \in StoreUploads :
        (/\ C10_BadUpload(upload)
         /\ \/ UploadRejected(upload)
            \/ \E id \in SessionIds : UploadAccepted(upload, id)) =>
            /\ resp'.op = "upload" /\ resp'.status = 400
            /\ State' = State
    /\ resp'.op = "upload" /\ resp'.status = 200 =>
        /\ resp'.session_id \notin DOMAIN State
        /\ DOMAIN State' = DOMAIN State \cup {resp'.session_id}
        /\ State'[resp'.session_id].values = <<>>
        /\ State'[resp'.session_id].pending = None
        /\ \A s \in DOMAIN State : State'[s] = State[s]
    /\ DOMAIN State \subseteq DOMAIN State'

\* C10: an upload with no file, a name without the .docx suffix or no bytes
\* is answered 400 and leaves the store as it was; an accepted upload adds
\* one session under an id the store did not hold, with empty values and no
\* pending, and leaves the other sessions as they were; no request removes
\* a session.
C10_UploadCreatesOrRejects == [][C10_UploadStep]_vars

\* C10 witness: a second session has been added beside one that chat has
\* already changed.
C10_Witness ==
    /\ resp.op = "upload" /\ resp.status = 200
    /\ \E s \in DOMAIN State : s # resp.session_id /\ State[s].values # <<>>

(***************************************************************************)
(* C11..C20                                                                *)
(***************************************************************************)

\* This step handles a chat, preview or download request naming session id.
C11_RequestFor(id) ==
    \/ ChatInvalidSession(id)
    \/ PreviewInvalidSession(id)
    \/ DownloadInvalidSession(id)
    \/ PreviewRequest(id)
    \/ DownloadRequest(id)
    \/ \E p \in StorePayloads, service \in ServiceOutcomes, raises \in BOOLEAN :
            ChatRequest(id, p.message, p.fill_all, p.start, p.edit_mode,
                        service, raises)

\* The step C11 is about.
C11_InvalidSessionStep ==
    \A id \in SessionIds \cup {NoSessionId} :
        (/\ id = NoSessionId \/ id \notin DOMAIN State
         /\ C11_RequestFor(id)) =>
            /\ resp'.op \in {"chat", "preview", "download"}
            /\ resp'.status = 400
            /\ State' = State

\* C11: a chat, preview or download request whose session id is missing or
\* is not a key of the store is answered 400 and leaves every session of
\* the store as it was.
C11_InvalidSessionRejected == [][C11_InvalidSessionStep]_vars

\* C11 witness: a chat request was refused 400 while the store holds a
\* session that chat has changed and an id of the pool names no session.
C11_Witness ==
    /\ resp.op = "chat" /\ resp.status = 400
    /\ \E s \in DOMAIN State : State[s].values # <<>>
    /\ SessionIds \ DOMAIN State # {}

\* The payloads whose message is empty once trimmed.
C12_EmptyMessagePayloads ==
    {p \in ChatPayloads : p.message = None \/ Strip(p.message[1]) = <<>>}

\* The step C12 is about.
C12_EmptyMessageStep ==
    resp'.op = "chat" =>
    \A s \in DOMAIN State : \A p \in C12_EmptyMessagePayloads :
        \/ /\ resp'.status = 200
           /\ (p.fill_all \in {None, Some(<<>>)} /\ ~p.start) =>
                    /\ ResponseKind(resp') = "idle"
                    /\ ~resp'.done
        \/ ~ChatStep(s, p)

\* C12 (amended): a chat request on a session the store holds whose message
\* is empty once trimmed is answered 200, never 4xx; when it carries neither
\* start nor a non-empty fill_all the answer is the generic notice with done
\* false.
C12_EmptyMessageAnswered200 == [][C12_EmptyMessageStep]_vars

\* C12 witness: the generic notice was given while a placeholder is pending,
\* which only a request with an empty message gets.
C12_Witness ==
    /\ ChatOk(resp) /\ ResponseKind(resp) = "idle"
    /\ \E s \in DOMAIN State : State[s].pending # None

\* The step of C12 as the claim states it.
C12_OriginalStep ==
    resp'.op = "chat" =>
    \A s \in DOMAIN State : \A p \in C12_EmptyMessagePayloads :
        ChatStep(s, p) => resp'.status \in 400..499

\* C12 as stated: a chat request on a session the store holds whose message
\* is empty once trimmed is answered with a 4xx status.
C12_EmptyMessageIs4xx == [][C12_OriginalStep]_vars

\* The step C13 is about.
C13_PreviewStep ==
    \A id \in SessionIds :
        PreviewRequest(id) =>
            /\ State' = State
            /\ (resp.op = "preview" /\ resp.status = 200) =>
                    resp'.html = resp.html

\* C13: a preview request leaves the session's document bytes, placeholders,
\* values and pending as they were, and a preview that follows a preview of
\* the session with no request in between returns the same HTML.
C13_PreviewIsReadOnly == [][C13_PreviewStep]_vars

\* C13 witness: a preview was rendered for a session with a recorded value
\* and a placeholder still pending.
C13_Witness ==
    /\ resp.op = "preview" /\ resp.status = 200
    /\ \E s \in DOMAIN State :
        /\ State[s].values # <<>>
        /\ State[s].pending # None
        /\ resp.html = document_to_html(State[s].doc_bytes.doc, State[s].values)

\* Payload p triggers none of fill-all, start, edit and answer on session.
C14_TriggersNothing(session, p) ==
    /\ p.fill_all \in {None, Some(<<>>)}
    /\ ~p.start
    /\ \/ p.message = None
       \/ Strip(p.message[1]) = <<>>
       \/ ~p.edit_mode /\ session.pending = None

\* The step C14 is about.
C14_IdleStep ==
    resp'.op = "chat" =>
    \A s \in DOMAIN State : \A p \in ChatPayloads :
        C14_TriggersNothing(State[s], p) =>
            \/ /\ State' = State
               /\ resp'.status = 200
               /\ resp'.messages =
                    <<Message("Please provide input or check your session.",
                              None, <<>>, 0)>>
            \/ ~ChatStep(s, p)

\* C14: a chat request with no fill-all and no start, and with no message,
\* or an empty message under edit_mode, or a message while no placeholder is
\* pending, leaves the session's document bytes, placeholders, values and
\* pending as they were and returns the generic notice alone.
C14_IdleChangesNothing == [][C14_IdleStep]_vars

\* C14 witness: the generic notice was given to a session that has values
\* and no pending placeholder.
C14_Witness ==
    /\ ChatOk(resp) /\ ResponseKind(resp) = "idle"
    /\ \E s \in DOMAIN State :
        /\ State[s].values # <<>>
        /\ State[s].pending = None

\* The threads that have recorded an answer for session s.
C15_Answered(s) ==
    {h \in Handlers :
        /\ handlers[h].pc = "done"
        /\ handlers[h].session_id = s
        /\ handlers[h].pending # None
        /\ handlers[h].message # <<>>}

\* C15: when the answer requests on a session were handled one after the
\* other, no two of them recorded under the same name and the session has one
\* value for each of them.
C15_SerializedAnswersFillDistinct ==
    \A s \in DOMAIN State :
        (\A h \in C15_Answered(s) : ~handlers[h].concurrent) =>
            /\ \A h1, h2 \in C15_Answered(s) :
                    h1 # h2 => handlers[h1].pending # handlers[h2].pending
            /\ Len(State[s].values) = Cardinality(C15_Answered(s))

\* C15 witness: two threads read the same pending before either wrote; both
\* messages were recorded under that name, the later over the earlier, and
\* the two answers filled one placeholder of two.
C15_Witness ==
    \E s \in DOMAIN State : \E h1, h2 \in C15_Answered(s) :
        /\ h1 # h2
        /\ handlers[h1].concurrent /\ handlers[h2].concurrent
        /\ handlers[h1].pending = handlers[h2].pending
        /\ handlers[h1].message # handlers[h2].message
        /\ Len(State[s].placeholders) = 2
        /\ State[s].values = <<[k |-> handlers[h1].pending[1],
                                v |-> handlers[h2].message]>>

\* The trimmed names of the occurrences in the paragraphs, in order.
C16_Names(paragraphs) ==
    Flatten([i \in 1..Len(paragraphs) |->
                LET ms == FindIter(paragraphs[i], 1)
                IN [k \in 1..Len(ms) |-> GroupName(paragraphs[i], ms[k])]])

\* The trimmed names of a document: the body first, then each table's rows,
\* cells and paragraphs.
C16_Occurrences(document) ==
    C16_Names(document.paragraphs)
        \o Flatten([t \in 1..Len(document.tables) |->
                Flatten([r \in 1..Len(document.tables[t]) |->
                    Flatten([c \in 1..Len(document.tables[t][r]) |->
                        C16_Names(document.tables[t][r][c])])])])

\* Index of the first occurrence of name.
C16_First(occurrences, name) ==
    CHOOSE k \in 1..Len(occurrences) :
        /\ occurrences[k] = name
        /\ \A l \in 1..(k - 1) : occurrences[l] # name

\* C16: the placeholders an upload reports are the distinct non-empty trimmed
\* names of the document, each once, ordered by first occurrence with the
\* body paragraphs before the table cells.
C16_ScanDistinctInOrder ==
    (resp.op = "upload" /\ resp.status = 200) =>
        LET document == State[resp.session_id].doc_bytes.doc
            found == resp.placeholders
            occurrences == C16_Occurrences(document)
        IN /\ found = State[resp.session_id].placeholders
           /\ ToSet(found) = ToSet(occurrences) \ {<<>>}
           /\ \A i, j \in 1..Len(found) :
                i < j => /\ found[i] # found[j]
                         /\ C16_First(occurrences, found[i])
                                < C16_First(occurrences, found[j])

\* C16 witness: the scan of a document with an empty name, a name repeated
\* in body and table, and a name found in the table only.
C16_Witness ==
    /\ resp.op = "upload" /\ resp.status = 200
    /\ State[resp.session_id].doc_bytes.doc =
            Doc(<<ScanBA, ScanBA>>, << << << <<ScanNested>>, <<ScanA>> >> >> >>)
    /\ resp.placeholders = <<NameB, NameA, <<"[", "A">> >>

\* The text with each occurrence whose trimmed name is a key replaced by the
\* key's value, and the text before, between and after the occurrences kept.
C17_Replaced(text, values) ==
    LET ms == FindIter(text, 1)
        n == Len(ms)
        gap(k) == SubSeq(text,
                         IF k = 0 THEN 1 ELSE ms[k].end + 1,
                         IF k = n THEN Len(text) ELSE ms[k + 1].start - 1)
        piece(k) == LET name == Strip(SubSeq(text, ms[k].start + 1, ms[k].end - 1))
                    IN IF name \in Keys(values)
                       THEN Get(values, name)
                       ELSE SubSeq(text, ms[k].start, ms[k].end)
    IN gap(0) \o Flatten([k \in 1..n |-> piece(k) \o gap(k)])

\* The step C17 is about.
C17_DownloadStep ==
    \A id \in SessionIds :
        DownloadRequest(id) =>
            LET document == State[id].doc_bytes.doc
                values == State[id].values
                out == resp'.file.doc
            IN /\ Len(out.paragraphs) = Len(document.paragraphs)
               /\ \A i \in 1..Len(document.paragraphs) :
                    out.paragraphs[i] = C17_Replaced(document.paragraphs[i], values)
               /\ Len(out.tables) = Len(document.tables)
               /\ \A t \in 1..Len(document.tables) :
                    /\ Len(out.tables[t]) = Len(document.tables[t])
                    /\ \A r \in 1..Len(document.tables[t]) :
                        /\ Len(out.tables[t][r]) = Len(document.tables[t][r])
                        /\ \A c \in 1..Len(document.tables[t][r]) :
                            /\ Len(out.tables[t][r][c]) = Len(document.tables[t][r][c])
                            /\ \A i \in 1..Len(document.tables[t][r][c]) :
                                out.tables[t][r][c][i] =
                                    C17_Replaced(document.tables[t][r][c][i], values)

\* C17: in the downloaded document every occurrence of a placeholder whose
\* trimmed name is a key of values is replaced by the key's value, in body
\* paragraphs and table cells alike; the other occurrences stay as written,
\* brackets included, and so does the text outside the occurrences.
C17_SubstitutesKnownNames == [][C17_DownloadStep]_vars

\* C17 witness: a download in which the table cell's placeholder was
\* replaced and the body's, which has no value, was left as written.
C17_Witness ==
    /\ resp.op = "download" /\ resp.status = 200
    /\ resp.file.doc = Doc(<<ParaB>>, << << << << <<"v">> >>, <<ParaBlank>> >> >> >>)
    /\ \E s \in DOMAIN State :
        /\ State[s].doc_bytes.doc = DocTable
        /\ KeyList(State[s].values) = <<NameA>>

\* The number of occurrences in the document whose trimmed name is not a key
\* of values.
C18_Unfilled(document, values) ==
    Len(SelectSeq(C16_Occurrences(document),
                  LAMBDA name : name \notin Keys(values)))

\* The number of highlighted spans of the HTML.
C18_Spans(html) == Cardinality({i \in 1..Len(html) : html[i] = SpanOpen})

\* The step C18 is about.
C18_PreviewStep ==
    \A id \in SessionIds :
        PreviewRequest(id) =>
            C18_Spans(resp'.html) =
                C18_Unfilled(State[id].doc_bytes.doc, State[id].values)

\* C18: the preview of a session highlights every occurrence of a placeholder
\* whose name has no value, and only those; with no values yet it highlights
\* every occurrence.
C18_PreviewHighlightsUnfilled == [][C18_PreviewStep]_vars

\* The characters html.escape replaces.
C19_Special == {"&", "<", ">", "\"", "'"}

\* The step C19 is about.
C19_PreviewStep ==
    \A id \in SessionIds :
        PreviewRequest(id) =>
            \A i \in 1..Len(resp'.html) : resp'.html[i] \notin C19_Special

\* C19: no character of document text reaches the preview HTML unescaped,
\* whether values is empty or not: the pieces of the HTML are tags, entities
\* and characters that need no escaping.
C19_PreviewEscapesAllText == [][C19_PreviewStep]_vars

\* This step applies an edit to session s with the text the adapter returns
\* for service.
C20_Applies(s, service) ==
    \E p \in EditPayloads :
        ChatRequest(s, p.message, p.fill_all, p.start, p.edit_mode, service, FALSE)

\* The text get_ai_edit returns to the edit branch.
C20_Returned(s, service) ==
    get_ai_edit(get_full_doc_text(State[s].doc_bytes.doc), service)

\* The segments between separators that are not blank, each trimmed.
C20_TrimmedSegments(edited_text) ==
    LET segments == SplitParas(edited_text)
        kept == SelectSeq(segments, LAMBDA p : \E i \in 1..Len(p) : p[i] \notin Whitespace)
    IN [i \in 1..Len(kept) |-> Strip(kept[i])]

\* The segments between separators that are not empty, as they are.
C20_NonEmptySegments(edited_text) ==
    SelectSeq(SplitParas(edited_text), LAMBDA p : p # <<>>)

\* The step C20 is about.
C20_EditStep ==
    ChatOk(resp') /\ resp'.messages[1].text = "Applied AI edit:" =>
    \A s \in DOMAIN State : \A service \in EditServiceOutcomes :
        C20_Applies(s, service) =>
            State'[s].doc_bytes.doc =
                Doc(C20_TrimmedSegments(C20_Returned(s, service)), <<>>)

\* C20 (amended): after an applied AI edit the stored document has no tables
\* and its paragraphs are, in order, the segments of the returned text
\* between "\n\n" separators that are not blank, each trimmed; nothing of the
\* previous body remains.
C20_EditStoresTrimmedSegments == [][C20_EditStep]_vars

\* C20 witness: an edit replaced a document that had a table by the two
\* paragraphs of a returned text with a blank segment between them.
C20_Witness ==
    /\ ChatOk(resp) /\ resp.messages[1].text = "Applied AI edit:"
    /\ \E s \in DOMAIN State :
        /\ State[s].placeholders = <<NameB, NameA>>
        /\ State[s].doc_bytes.doc = Doc(<< <<"x">>, ParaB >>, <<>>)

\* The step of C20 as the claim states it.
C20_OriginalStep ==
    ChatOk(resp') /\ resp'.messages[1].text = "Applied AI edit:" =>
    \A s \in DOMAIN State : \A service \in EditServiceOutcomes :
        C20_Applies(s, service) =>
            State'[s].doc_bytes.doc =
                Doc(C20_NonEmptySegments(C20_Returned(s, service)), <<>>)

\* C20 as stated: after an applied AI edit the stored document has no tables
\* and its paragraphs are exactly the non-empty segments of the returned
\* text split on "\n\n", in order.
C20_EditStoresNonEmptySegments == [][C20_OriginalStep]_vars

(***************************************************************************)
(* C21..C23                                                                *)
(***************************************************************************)

\* The keys of values cover the placeholders of session.
C21_Complete(session) == ToSet(session.placeholders) \subseteq Keys(session.values)

\* The step C21 is about.
C21_Step ==
    \A s \in DOMAIN State :
        /\ s \in DOMAIN State'
        /\ Keys(State[s].values) \subseteq Keys(State'[s].values)
        /\ State'[s].placeholders = State[s].placeholders
        /\ C21_Complete(State[s]) => C21_Complete(State'[s])

\* C21: no request removes a key of values or changes the placeholders of a
\* session, so a session whose values cover its placeholders stays covered.
C21_CompletenessIsStable == [][C21_Step]_vars

\* C21 witness: a session with placeholders is covered and an edit was
\* applied to it afterwards.
C21_Witness ==
    /\ ChatOk(resp) /\ ResponseKind(resp) = "edit"
    /\ \E s \in DOMAIN State :
        /\ State[s].placeholders # <<>>
        /\ C21_Complete(State[s])

\* The step C22 is about.
C22_AnswerStep ==
    ChatOk(resp') /\ ResponseKind(resp') = "answer" =>
    \A s \in DOMAIN State :
        \A k \in Keys(State[s].values) :
            Get(State'[s].values, k) = Get(State[s].values, k)

\* C22: an answer records its message under a placeholder that had no value
\* before the request, so it leaves every value the session already had.
C22_AnswerNeverOverwrites == [][C22_AnswerStep]_vars

\* The step C23 is about.
C23_Step ==
    /\ \A s \in DOMAIN State :
        State'[s].doc_bytes # State[s].doc_bytes =>
            ChatOk(resp') /\ resp'.messages[1].text = "Applied AI edit:"
    /\ \A id \in SessionIds :
        DownloadRequest(id) =>
            /\ State' = State
            /\ resp'.file = DocxBytes(apply_values(State'[id].doc_bytes.doc,
                                                   State'[id].values))

\* C23: the stored document bytes of a session change only in a step that
\* applies an edit; a download leaves the store as it was and returns the
\* stored document with the session's current values substituted.
C23_OnlyEditChangesDocument == [][C23_Step]_vars

\* C23 witness: a download returned a document that differs from the stored
\* one, which still holds its placeholders.
C23_Witness ==
    /\ resp.op = "download" /\ resp.status = 200
    /\ \E s \in DOMAIN State :
        /\ State[s].values # <<>>
        /\ resp.file.doc # State[s].doc_bytes.doc
        /\ collect_placeholders(State[s].doc_bytes.doc) = State[s].placeholders

====
